---- MODULE Spec2Model ----
(***************************************************************************)
(* Model of the YouTube trending-video dashboard:                          *)
(*   youtube-analysis-app/app.py            load_data, preprocess_data,    *)
(*                                          create_sample_data, main and   *)
(*                                          the four reporting views       *)
(*   youtube-analysis-app/utils/data_loader.py                             *)
(*                                          download_youtube_data,         *)
(*                                          load_country_data,             *)
(*                                          preprocess_data                *)
(*                                                                         *)
(* Three specifications share the variables:                               *)
(*   SpecLoad  the two loaders, statement by statement, on a table that    *)
(*             is described by its source, row count and columns;          *)
(*   SpecPre   preprocessing of the cells of a small table;                *)
(*   SpecMain  one run of main(): widgets, filter stage, reporting view.   *)
(***************************************************************************)
EXTENDS Integers, Sequences, FiniteSets, TLC

VARIABLES
    \* ---- SpecLoad ----
    entry,          \* which loader the caller calls
    sample_size,    \* the loader's sample_size argument
    env,            \* outcome of every external call (shared by both runs)
    pc,             \* [run -> statement the run is at]
    df,             \* [run -> the local variable df]
    ret,            \* [run -> the value returned to the caller]
    events,         \* [run -> sequence of stage outcomes so far]
    notifyFailed,   \* [run -> a notification call has raised in the run]
    path,           \* [run -> dataset_path of load_country_data]
    \* ---- SpecPre ----
    ppc, variant, raw, psize, out,
    \* ---- SpecMain ----
    mpc, mdf, analysis_type, selected_categories, view_range, filtered_df, view

loadVars == <<entry, sample_size, env, pc, df, ret, events, notifyFailed, path>>
preVars  == <<ppc, variant, raw, psize, out>>
mainVars == <<mpc, mdf, analysis_type, selected_categories, view_range,
              filtered_df, view>>
vars     == <<loadVars, preVars, mainVars>>

(***************************************************************************)
(* Columns                                                                 *)
(***************************************************************************)

\* The columns of the Kaggle file that the code reads.
KaggleCols ==
    {"video_id", "trending_date", "title", "channel_title", "category_id",
     "publish_time", "tags", "views", "likes", "dislikes", "comment_count"}

\* The columns data_loader.preprocess_data indexes without a guard.
LoaderRequiredCols ==
    {"trending_date", "publish_time", "category_id", "likes", "comments",
     "views", "dislikes", "tags", "title"}

DerivedCols ==
    {"category_name", "engagement_rate", "like_ratio", "tags_count",
     "publish_hour", "publish_day", "title_length"}

\* The keys of create_sample_data's data dict.
SampleBaseCols ==
    {"video_id", "title", "channel_title", "category_id", "category_name",
     "views", "likes", "dislikes", "comment_count", "tags", "publish_time"}

\* The columns create_sample_data adds after building the frame.
SampleDerivedCols ==
    {"engagement_rate", "like_ratio", "tags_count", "publish_hour",
     "publish_day", "title_length"}

n_samples == 1000

(***************************************************************************)
(* Tables as the loader sees them: where the rows came from, how many      *)
(* there are, which columns exist, whether the title column holds text     *)
(* (Series.str raises on a column that does not), and how many times each  *)
(* derived column has been computed on this table.                         *)
(***************************************************************************)

NeverComputed == [c \in DerivedCols |-> 0]

NoneVal ==
    [source |-> "None", len |-> 0, cols |-> {}, textTitle |-> TRUE,
     computed |-> NeverComputed]

Computed(counts, cs) ==
    [c \in DerivedCols |-> IF c \in cs THEN counts[c] + 1 ELSE counts[c]]

\* app.py preprocess_data: the guard of each derivation, on the column set.
DerivedByPreprocess(cols) ==
    (IF "category_id" \in cols THEN {"category_name"} ELSE {})
    \cup (IF {"views", "likes", "comment_count"} \subseteq cols
          THEN {"engagement_rate"} ELSE {})
    \cup (IF {"likes", "dislikes"} \subseteq cols THEN {"like_ratio"} ELSE {})
    \cup (IF "tags" \in cols THEN {"tags_count"} ELSE {})
    \cup (IF "publish_time" \in cols THEN {"publish_hour", "publish_day"} ELSE {})
    \cup (IF "title" \in cols THEN {"title_length"} ELSE {})

\* df.sample(sample_size, random_state=42) when len(df) > sample_size.
SampledLen(len, size) == IF len > size THEN size ELSE len

\* app.py preprocess_data raises when .str is used on a title column that
\* holds no text; every other step is guarded or coerces.
PreprocessRaises(t) == "title" \in t.cols /\ ~t.textTitle

preprocess_data(t, size) ==
    [t EXCEPT !.len = SampledLen(t.len, size),
              !.cols = t.cols \cup DerivedByPreprocess(t.cols),
              !.computed = Computed(t.computed, DerivedByPreprocess(t.cols))]

create_sample_data ==
    [source |-> "synthetic", len |-> n_samples,
     cols |-> SampleBaseCols \cup SampleDerivedCols, textTitle |-> TRUE,
     computed |-> Computed(NeverComputed,
                           {"category_name"} \cup SampleDerivedCols)]

\* data_loader.py preprocess_data: no guard on any column.
LoaderPreprocessRaises(t) ==
    ~(LoaderRequiredCols \subseteq t.cols) \/ ~t.textTitle

loader_preprocess_data(t, size) ==
    [t EXCEPT !.len = SampledLen(t.len, size),
              !.cols = t.cols \cup DerivedCols,
              !.computed = Computed(t.computed, DerivedCols)]

(***************************************************************************)
(* Inputs of SpecLoad                                                      *)
(***************************************************************************)

Runs == {"observed", "reference"}

SampleSizes == {500, 3000, 5000}

RawLens == {400, 6000}

RawColSets == {KaggleCols, KaggleCols \cup {"comments"}}

RawTables ==
    [source : {"file"}, len : RawLens, cols : RawColSets,
     textTitle : BOOLEAN, computed : {NeverComputed}]

Envs ==
    [download : BOOLEAN,        \* kagglehub.dataset_download succeeds
     read : BOOLEAN,            \* pd.read_csv of the downloaded file succeeds
     category : BOOLEAN,        \* pd.read_json of the category file succeeds
     local : BOOLEAN,           \* pd.read_csv('data/USvideos.csv') succeeds
     remoteTable : RawTables,
     localTable : RawTables]

Entries == {"load_data", "load_country_data"}

Terminal == {"returned", "raised"}

\* The reference run starts when the observed run has ended, and no
\* notification raises in it.
Turn(r) == r = "observed" \/ pc["observed"] \in Terminal
NotifyOk(r) == IF r = "reference" THEN {TRUE} ELSE BOOLEAN

Goto(r, l) == pc' = [pc EXCEPT ![r] = l]
Log(r, e) == events' = [events EXCEPT ![r] = Append(@, e)]
Raised(r, ok) == notifyFailed' = [notifyFailed EXCEPT ![r] = @ \/ ~ok]

(***************************************************************************)
(* app.py load_data, lines 15-42                                           *)
(***************************************************************************)

\* line 22: st.info inside the remote try block
L22(r) ==
    /\ Turn(r) /\ pc[r] = "L22"
    /\ \E ok \in NotifyOk(r) :
         /\ Raised(r, ok)
         /\ IF ok THEN Goto(r, "L23") /\ UNCHANGED events
                  ELSE Goto(r, "L29") /\ Log(r, "remote_raised")
    /\ UNCHANGED <<preVars, mainVars, path, entry, sample_size, env, df, ret>>

\* lines 21, 23: import kagglehub; kagglehub.dataset_download
L23(r) ==
    /\ Turn(r) /\ pc[r] = "L23"
    /\ IF env.download THEN Goto(r, "L24") /\ UNCHANGED events
                       ELSE Goto(r, "L29") /\ Log(r, "remote_raised")
    /\ UNCHANGED <<preVars, mainVars, path, entry, sample_size, env, df, ret, notifyFailed>>

\* line 24: df = pd.read_csv(os.path.join(path, 'USvideos.csv'))
L24(r) ==
    /\ Turn(r) /\ pc[r] = "L24"
    /\ IF env.read
       THEN /\ df' = [df EXCEPT ![r] = [env.remoteTable EXCEPT !.source = "remote"]]
            /\ Goto(r, "L25") /\ UNCHANGED events
       ELSE /\ Goto(r, "L29") /\ Log(r, "remote_raised") /\ UNCHANGED df
    /\ UNCHANGED <<preVars, mainVars, path, entry, sample_size, env, ret, notifyFailed>>

\* L25 with the fall-through bug: after a successful download the loader
\* goes on to read the local file.
L25_FallsThrough(r) ==
    /\ Turn(r) /\ pc[r] = "L25"
    /\ \E ok \in NotifyOk(r) :
         /\ Raised(r, ok)
         /\ IF ok THEN Goto(r, "L29") /\ Log(r, "remote_ok")
                  ELSE Goto(r, "L29") /\ Log(r, "remote_raised")
    /\ UNCHANGED <<preVars, mainVars, path, entry, sample_size, env, df, ret>>

\* line 25: st.success, still inside the remote try block
L25(r) ==
    /\ Turn(r) /\ pc[r] = "L25"
    /\ \E ok \in NotifyOk(r) :
         /\ Raised(r, ok)
         /\ IF ok THEN Goto(r, "L37") /\ Log(r, "remote_ok")
                  ELSE Goto(r, "L29") /\ Log(r, "remote_raised")
    /\ UNCHANGED <<preVars, mainVars, path, entry, sample_size, env, df, ret>>

\* line 29: df = pd.read_csv('data/USvideos.csv')
L29(r) ==
    /\ Turn(r) /\ pc[r] = "L29"
    /\ IF env.local
       THEN /\ df' = [df EXCEPT ![r] = [env.localTable EXCEPT !.source = "local"]]
            /\ Goto(r, "L30")
            /\ Log(r, "local_read")
       ELSE /\ Goto(r, "L33")
            /\ events' = [events EXCEPT ![r] = @ \o <<"local_read", "local_raised">>]
            /\ UNCHANGED df
    /\ UNCHANGED <<preVars, mainVars, path, entry, sample_size, env, ret, notifyFailed>>

\* line 30: st.info inside the local try block
L30(r) ==
    /\ Turn(r) /\ pc[r] = "L30"
    /\ \E ok \in NotifyOk(r) :
         /\ Raised(r, ok)
         /\ IF ok THEN Goto(r, "L37") /\ Log(r, "local_ok")
                  ELSE Goto(r, "L33") /\ Log(r, "local_raised")
    /\ UNCHANGED <<preVars, mainVars, path, entry, sample_size, env, df, ret>>

\* line 33: st.warning in the inner handler; the outer try catches what it raises
L33(r) ==
    /\ Turn(r) /\ pc[r] = "L33"
    /\ \E ok \in NotifyOk(r) :
         /\ Raised(r, ok)
         /\ IF ok THEN Goto(r, "L34") /\ UNCHANGED events
                  ELSE Goto(r, "L41") /\ Log(r, "outer_error")
    /\ UNCHANGED <<preVars, mainVars, path, entry, sample_size, env, df, ret>>

\* line 34: df = create_sample_data()
L34(r) ==
    /\ Turn(r) /\ pc[r] = "L34"
    /\ df' = [df EXCEPT ![r] = create_sample_data]
    /\ Goto(r, "L37") /\ Log(r, "synthetic")
    /\ UNCHANGED <<preVars, mainVars, path, entry, sample_size, env, ret, notifyFailed>>

\* line 37: df = preprocess_data(df, sample_size)
L37(r) ==
    /\ Turn(r) /\ pc[r] = "L37"
    /\ IF PreprocessRaises(df[r])
       THEN Goto(r, "L41") /\ Log(r, "outer_error") /\ UNCHANGED df
       ELSE /\ df' = [df EXCEPT ![r] = preprocess_data(df[r], sample_size)]
            /\ Goto(r, "L38") /\ Log(r, "preprocessed")
    /\ UNCHANGED <<preVars, mainVars, path, entry, sample_size, env, ret, notifyFailed>>

\* line 38: return df
L38(r) ==
    /\ Turn(r) /\ pc[r] = "L38"
    /\ ret' = [ret EXCEPT ![r] = df[r]]
    /\ Goto(r, "returned")
    /\ UNCHANGED <<preVars, mainVars, path, entry, sample_size, env, df, events, notifyFailed>>

\* line 41: st.error in the outer handler; nothing catches what it raises
L41(r) ==
    /\ Turn(r) /\ pc[r] = "L41"
    /\ \E ok \in NotifyOk(r) :
         /\ Raised(r, ok)
         /\ IF ok THEN Goto(r, "L42") ELSE Goto(r, "raised")
    /\ UNCHANGED <<preVars, mainVars, path, entry, sample_size, env, df, ret, events>>

\* line 42: return create_sample_data()
L42(r) ==
    /\ Turn(r) /\ pc[r] = "L42"
    /\ ret' = [ret EXCEPT ![r] = create_sample_data]
    /\ Goto(r, "returned") /\ Log(r, "synthetic")
    /\ UNCHANGED <<preVars, mainVars, path, entry, sample_size, env, df, notifyFailed>>

(***************************************************************************)
(* data_loader.py download_youtube_data, lines 7-17                        *)
(***************************************************************************)

\* line 11: st.info inside the try block
D11(r) ==
    /\ Turn(r) /\ pc[r] = "D11"
    /\ \E ok \in NotifyOk(r) :
         /\ Raised(r, ok)
         /\ IF ok THEN Goto(r, "D12") ELSE Goto(r, "D16")
    /\ UNCHANGED <<preVars, mainVars, path, entry, sample_size, env, df, ret, events>>

\* line 12: path = kagglehub.dataset_download(...)
D12(r) ==
    /\ Turn(r) /\ pc[r] = "D12"
    /\ IF env.download THEN Goto(r, "D13") ELSE Goto(r, "D16")
    /\ UNCHANGED <<preVars, mainVars, path, entry, sample_size, env, df, ret, events, notifyFailed>>

\* lines 13-14: st.success, then return path
D13(r) ==
    /\ Turn(r) /\ pc[r] = "D13"
    /\ \E ok \in NotifyOk(r) :
         /\ Raised(r, ok)
         /\ IF ok THEN /\ path' = [path EXCEPT ![r] = "dir"]
                       /\ Goto(r, "C25") /\ Log(r, "remote_ok")
                  ELSE Goto(r, "D16") /\ UNCHANGED <<path, events>>
    /\ UNCHANGED <<preVars, mainVars, entry, sample_size, env, df, ret>>

\* lines 16-17: st.error, then return None; load_country_data calls
\* download_youtube_data outside any try, so what st.error raises escapes
D16(r) ==
    /\ Turn(r) /\ pc[r] = "D16"
    /\ \E ok \in NotifyOk(r) :
         /\ Raised(r, ok)
         /\ IF ok THEN /\ path' = [path EXCEPT ![r] = "None"]
                       /\ Goto(r, "C25") /\ Log(r, "remote_raised")
                  ELSE Goto(r, "raised") /\ UNCHANGED <<path, events>>
    /\ UNCHANGED <<preVars, mainVars, entry, sample_size, env, df, ret>>

(***************************************************************************)
(* data_loader.py load_country_data, lines 20-45                           *)
(***************************************************************************)

\* lines 25-27: if dataset_path is None: st.warning; return None
C25(r) ==
    /\ Turn(r) /\ pc[r] = "C25"
    /\ IF path[r] = "None"
       THEN \E ok \in NotifyOk(r) :
              /\ Raised(r, ok)
              /\ IF ok THEN /\ ret' = [ret EXCEPT ![r] = NoneVal]
                            /\ Goto(r, "returned")
                       ELSE Goto(r, "raised") /\ UNCHANGED ret
       ELSE Goto(r, "C35") /\ UNCHANGED <<ret, notifyFailed>>
    /\ UNCHANGED <<preVars, mainVars, path, entry, sample_size, env, df, events>>

\* line 35: df = pd.read_csv(videos_path)
C35(r) ==
    /\ Turn(r) /\ pc[r] = "C35"
    /\ IF env.read
       THEN /\ df' = [df EXCEPT ![r] = [env.remoteTable EXCEPT !.source = "remote"]]
            /\ Goto(r, "C36")
       ELSE Goto(r, "C44") /\ UNCHANGED df
    /\ UNCHANGED <<preVars, mainVars, path, entry, sample_size, env, ret, events, notifyFailed>>

\* line 36: category_df = pd.read_json(category_path)
C36(r) ==
    /\ Turn(r) /\ pc[r] = "C36"
    /\ IF env.category THEN Goto(r, "C39") ELSE Goto(r, "C44")
    /\ UNCHANGED <<preVars, mainVars, path, entry, sample_size, env, df, ret, events, notifyFailed>>

\* lines 39-41: df = preprocess_data(df, category_df, sample_size); return df
C39(r) ==
    /\ Turn(r) /\ pc[r] = "C39"
    /\ IF LoaderPreprocessRaises(df[r])
       THEN Goto(r, "C44") /\ UNCHANGED <<df, ret, events>>
       ELSE /\ df' = [df EXCEPT ![r] = loader_preprocess_data(df[r], sample_size)]
            /\ ret' = [ret EXCEPT ![r] = loader_preprocess_data(df[r], sample_size)]
            /\ Goto(r, "returned") /\ Log(r, "preprocessed")
    /\ UNCHANGED <<preVars, mainVars, path, entry, sample_size, env, notifyFailed>>

\* lines 44-45: st.error, then return None
C44(r) ==
    /\ Turn(r) /\ pc[r] = "C44"
    /\ \E ok \in NotifyOk(r) :
         /\ Raised(r, ok)
         /\ IF ok THEN /\ ret' = [ret EXCEPT ![r] = NoneVal]
                       /\ Goto(r, "returned")
                  ELSE Goto(r, "raised") /\ UNCHANGED ret
    /\ UNCHANGED <<preVars, mainVars, path, entry, sample_size, env, df, events>>

(***************************************************************************)
(* SpecLoad                                                                *)
(***************************************************************************)

PreIdle ==
    /\ ppc = "idle" /\ variant = "none" /\ raw = <<>> /\ psize = 0 /\ out = <<>>

MainIdle ==
    /\ mpc = "idle" /\ mdf = <<>> /\ analysis_type = "none"
    /\ selected_categories = {} /\ view_range = <<0, 0>>
    /\ filtered_df = <<>> /\ view = <<>>

FirstStatement(e) == IF e = "load_data" THEN "L22" ELSE "D11"

LoadIdle ==
    /\ entry = "load_data" /\ sample_size = 0
    /\ env = [download |-> FALSE, read |-> FALSE, category |-> FALSE,
              local |-> FALSE, remoteTable |-> NoneVal, localTable |-> NoneVal]
    /\ pc = [r \in Runs |-> "idle"]
    /\ df = [r \in Runs |-> NoneVal]
    /\ ret = [r \in Runs |-> NoneVal]
    /\ events = [r \in Runs |-> <<>>]
    /\ notifyFailed = [r \in Runs |-> FALSE]
    /\ path = [r \in Runs |-> "unset"]

LoadInit ==
    /\ entry \in Entries
    /\ sample_size \in SampleSizes
    /\ env \in Envs
    /\ pc = [r \in Runs |-> FirstStatement(entry)]
    /\ df = [r \in Runs |-> NoneVal]
    /\ ret = [r \in Runs |-> NoneVal]
    /\ events = [r \in Runs |-> <<>>]
    /\ notifyFailed = [r \in Runs |-> FALSE]
    /\ path = [r \in Runs |-> "unset"]
    /\ PreIdle /\ MainIdle

LoadNext ==
    \E r \in Runs :
        \/ L22(r) \/ L23(r) \/ L24(r) \/ L25(r) \/ L29(r) \/ L30(r)
        \/ L33(r) \/ L34(r) \/ L37(r) \/ L38(r) \/ L41(r) \/ L42(r)
        \/ D11(r) \/ D12(r) \/ D13(r) \/ D16(r)
        \/ C25(r) \/ C35(r) \/ C36(r) \/ C39(r) \/ C44(r)

SpecLoad == LoadInit /\ [][LoadNext]_vars

(***************************************************************************)
(* Properties of the loaders (checked under SpecLoad)                      *)
(***************************************************************************)

Has(ev, e) == \E i \in 1..Len(ev) : ev[i] = e
Before(ev, e, i) == \E j \in 1..(i - 1) : ev[j] = e

RemoteSucceeds == env.download /\ env.read

\* C1: for every combination of failures of the remote download, the local
\* read and preprocessing (no notification raising), the loader ends by
\* returning a dataset, never None and never an exception, and the dataset
\* is the synthetic one when every source has failed.
C1_LoaderAlwaysReturnsDataset ==
    \A r \in Runs :
        (pc[r] \in Terminal /\ ~notifyFailed[r]) =>
            /\ pc[r] = "returned"
            /\ ret[r].source # "None"
            /\ (~RemoteSucceeds /\ ~env.local) => ret[r].source = "synthetic"

\* C2 as claimed: the local file is read only after the remote attempt has
\* failed, the synthetic dataset is created only after both attempts have
\* failed, and a source that succeeds is the one whose data is returned
\* (stated for the runs of load_data in which no notification raises).
C2_FixedOrderAsClaimed ==
    \A r \in Runs :
        (entry = "load_data" /\ ~notifyFailed[r]) =>
            /\ Has(events[r], "local_read") => ~RemoteSucceeds
            /\ Has(events[r], "synthetic") => (~RemoteSucceeds /\ ~env.local)
            /\ pc[r] = "returned" =>
                 /\ RemoteSucceeds => ret[r].source = "remote"
                 /\ (~RemoteSucceeds /\ env.local) => ret[r].source = "local"

\* C2 as amended: in load_data the local file is read only after the remote
\* try block has raised; the synthetic dataset is created only after both
\* the remote and the local try block have raised, or after the outer
\* handler has been entered; a try block raises only when its download or
\* read fails or one of its notices raises; the value returned is the
\* synthetic dataset when the outer handler was entered, and otherwise the
\* data of the first try block that completed.
C2_FixedOrderAmended ==
    \A r \in Runs :
        entry = "load_data" =>
            LET ev == events[r] IN
            /\ \A i \in 1..Len(ev) :
                 /\ ev[i] = "local_read" => Before(ev, "remote_raised", i)
                 /\ ev[i] = "synthetic" =>
                      \/ Before(ev, "remote_raised", i) /\ Before(ev, "local_raised", i)
                      \/ Before(ev, "outer_error", i)
            /\ ~notifyFailed[r] =>
                 /\ Has(ev, "remote_raised") => ~RemoteSucceeds
                 /\ Has(ev, "local_raised") => ~env.local
            /\ pc[r] = "returned" =>
                 ret[r].source =
                     IF Has(ev, "outer_error") THEN "synthetic"
                     ELSE IF Has(ev, "remote_ok") THEN "remote"
                     ELSE IF Has(ev, "local_ok") THEN "local"
                     ELSE "synthetic"

\* C2 witness: the remote source succeeded, preprocessing raised, and the
\* reference run returned the synthetic dataset.
C2_Witness ==
    /\ entry = "load_data" /\ pc["reference"] = "returned"
    /\ Has(events["reference"], "remote_ok")
    /\ Has(events["reference"], "outer_error")
    /\ ret["reference"].source = "synthetic"

\* C3: with the same outcomes of the external calls, the run in which
\* notifications may raise ends as the run in which none does: same way of
\* ending, same source, same dataset.
C3_NotificationsObservationalOnly ==
    (pc["observed"] \in Terminal /\ pc["reference"] \in Terminal) =>
        /\ pc["observed"] = pc["reference"]
        /\ ret["observed"] = ret["reference"]

\* C5: on every path on which no notification raises, the table returned
\* has at most sample_size rows.
C5_RowsCappedAtSampleSize ==
    \A r \in Runs :
        (pc[r] = "returned" /\ ~notifyFailed[r] /\ ret[r].source # "None") =>
            ret[r].len <= sample_size

\* C9: every derived column of the table a loader returns has been computed
\* exactly once (on the paths on which no notification raises).
C9_DerivedComputedOnce ==
    \A r \in Runs :
        (pc[r] = "returned" /\ ~notifyFailed[r]) =>
            \A c \in DerivedCols \cap ret[r].cols : ret[r].computed[c] = 1

(***************************************************************************)
(* Preprocessing of the cells (SpecPre).  A raw table holds the text of    *)
(* each CSV cell of the numeric columns; a cell is a sequence of           *)
(* characters.                                                             *)
(***************************************************************************)

MaxRows == 1

Digits == {"0", "1", "2", "3", "4", "5", "6", "7", "8", "9"}

DigitValue(c) ==
    CASE c = "0" -> 0 [] c = "1" -> 1 [] c = "2" -> 2 [] c = "3" -> 3
      [] c = "4" -> 4 [] c = "5" -> 5 [] c = "6" -> 6 [] c = "7" -> 7
      [] c = "8" -> 8 [] c = "9" -> 9

AllDigits(s) == Len(s) > 0 /\ \A i \in 1..Len(s) : s[i] \in Digits

RECURSIVE NatOf(_)
NatOf(s) ==
    IF s = <<>> THEN 0
    ELSE 10 * NatOf(SubSeq(s, 1, Len(s) - 1)) + DigitValue(s[Len(s)])

NaN == [isnum |-> FALSE, n |-> 0]
Num(n) == [isnum |-> TRUE, n |-> n]

\* pd.to_numeric(..., errors='coerce') on one cell: the number the text
\* spells, NaN for any other text.
to_numeric(cell) ==
    IF AllDigits(cell) THEN Num(NatOf(cell))
    ELSE IF Len(cell) > 1 /\ cell[1] = "-" /\ AllDigits(Tail(cell))
         THEN Num(0 - NatOf(Tail(cell)))
         ELSE NaN

\* Series.fillna(0) on one value.
fillna0(v) == IF v.isnum THEN v.n ELSE 0

\* Coerce with the wrong fill value.
Coerce_FillsOne(cell) == IF to_numeric(cell).isnum THEN to_numeric(cell).n ELSE 1

\* line 74: df[col] = pd.to_numeric(df[col], errors='coerce').fillna(0)
Coerce(cell) == fillna0(to_numeric(cell))

numeric_cols == {"views", "likes", "dislikes", "comment_count"}

\* A quotient of two columns, kept exact: the value is num / den, and is
\* inf or NaN in pandas when den = 0.
Ratio(num, den) == [num |-> num, den |-> den]

\* app.py line 77.
EngagementRate(row) ==
    Ratio((row["likes"] + row["comment_count"]) * 100, row["views"] + 1)

\* app.py line 80, data_loader.py line 67.
LikeRatio(row) ==
    Ratio(row["likes"] * 100, row["likes"] + row["dislikes"] + 1)

\* data_loader.py line 66.
LoaderEngagementRate(row) ==
    Ratio((row["likes"] + row["comments"]) * 100, row["views"])

\* The derivations of lines 76-80 that a table with columns cols gets.
RatesDerived(cols) ==
    DerivedByPreprocess(cols) \cap {"engagement_rate", "like_ratio"}

\* app.py lines 71-80 on one row of a table with columns cols.
PreprocessRow(row, cols) ==
    LET coerced == [c \in cols |-> IF c \in numeric_cols THEN Coerce(row[c])
                                                        ELSE row[c]]
    IN [c \in cols \cup RatesDerived(cols) |->
           IF c = "engagement_rate" THEN EngagementRate(coerced)
           ELSE IF c = "like_ratio" THEN LikeRatio(coerced)
           ELSE coerced[c]]

\* The columns data_loader.py lines 66-67 do arithmetic on.
LoaderArithmeticCols == {"likes", "comments", "views", "dislikes"}

\* pd.read_csv gives a column the object dtype when one of its cells is
\* not a number; arithmetic between such a column and a number raises.
ColumnIsNumeric(rows, c) ==
    \A i \in 1..Len(rows) : to_numeric(rows[i][c]).isnum

LoaderRowsRaise(t) ==
    \/ ~(LoaderArithmeticCols \subseteq t.cols)
    \/ \E c \in LoaderArithmeticCols : ~ColumnIsNumeric(t.rows, c)

\* data_loader.py lines 66-67 on one row.
LoaderPreprocessRow(row, cols) ==
    LET parsed == [c \in cols |-> to_numeric(row[c]).n]
    IN [c \in cols \cup {"engagement_rate", "like_ratio"} |->
           IF c = "engagement_rate" THEN LoaderEngagementRate(parsed)
           ELSE IF c = "like_ratio" THEN LikeRatio(parsed)
           ELSE parsed[c]]

\* The index df.sample(size, random_state=42) may leave: some size of the
\* row labels (the generator is not modelled); all of them when
\* len(df) <= size.
RECURSIVE Pick(_, _, _)
Pick(n, keep, i) ==
    IF i > n THEN <<>>
    ELSE (IF i \in keep THEN <<i>> ELSE <<>>) \o Pick(n, keep, i + 1)

Samples(n, size) ==
    IF n > size
    THEN {Pick(n, keep, 1) :
            keep \in {k \in SUBSET (1..n) : Cardinality(k) = size}}
    ELSE {Pick(n, 1..n, 1)}

RawCells == {<<"0">>, <<"7">>, <<"-", "1">>, <<"x">>}

RawNumericColSets ==
    {{"views", "likes", "dislikes", "comment_count"},
     {"views", "likes", "dislikes", "comments"},
     {"likes", "dislikes"}}

RowsUpTo(cols, n) ==
    UNION {[1..k -> [cols -> RawCells]] : k \in 0..n}

\* The values np.random.randint can give each counter of a synthetic row
\* (app.py lines 107-110): the ends of each range.
SampleRows ==
    [views : {1000, 999999}, likes : {100, 99999},
     dislikes : {0, 4999}, comment_count : {0, 9999}]

\* app.py preprocess_data, lines 44-92, on the numeric columns.
Preprocess ==
    /\ ppc = "raw" /\ variant = "app"
    /\ \E index \in Samples(Len(raw.rows), psize) :
         out' = [cols |-> raw.cols \cup RatesDerived(raw.cols),
                 index |-> index,
                 rows |-> [j \in 1..Len(index) |->
                             PreprocessRow(raw.rows[index[j]], raw.cols)]]
    /\ ppc' = "done"
    /\ UNCHANGED <<loadVars, mainVars, variant, raw, psize>>

\* data_loader.py preprocess_data, lines 48-73, on the numeric columns.
LoaderPreprocess ==
    /\ ppc = "raw" /\ variant = "data_loader"
    /\ IF LoaderRowsRaise(raw)
       THEN ppc' = "raised" /\ UNCHANGED out
       ELSE /\ \E index \in Samples(Len(raw.rows), psize) :
                 out' = [cols |-> raw.cols \cup {"engagement_rate", "like_ratio"},
                         index |-> index,
                         rows |-> [j \in 1..Len(index) |->
                                     LoaderPreprocessRow(raw.rows[index[j]], raw.cols)]]
            /\ ppc' = "done"
    /\ UNCHANGED <<loadVars, mainVars, variant, raw, psize>>

\* app.py create_sample_data, lines 94-125, on the numeric columns.
CreateSampleRows ==
    /\ ppc = "raw" /\ variant = "sample"
    /\ \E rows \in UNION {[1..k -> SampleRows] : k \in 1..MaxRows} :
         out' = [cols |-> numeric_cols \cup {"engagement_rate", "like_ratio"},
                 index |-> [i \in 1..Len(rows) |-> i],
                 rows |-> [i \in 1..Len(rows) |->
                             [c \in numeric_cols \cup {"engagement_rate", "like_ratio"} |->
                                 IF c = "engagement_rate" THEN EngagementRate(rows[i])
                                 ELSE IF c = "like_ratio" THEN LikeRatio(rows[i])
                                 ELSE rows[i][c]]]]
    /\ ppc' = "done"
    /\ UNCHANGED <<loadVars, mainVars, variant, raw, psize>>

PreInit ==
    /\ ppc = "raw"
    /\ variant \in {"app", "data_loader", "sample"}
    /\ IF variant = "sample"
       THEN raw = [cols |-> {}, rows |-> <<>>] /\ psize = 0
       ELSE /\ \E cols \in RawNumericColSets :
                 raw \in [cols : {cols}, rows : RowsUpTo(cols, MaxRows)]
            /\ psize \in 0..MaxRows
    /\ out = <<>>
    /\ LoadIdle /\ MainIdle

PreNext == Preprocess \/ LoaderPreprocess \/ CreateSampleRows

SpecPre == PreInit /\ [][PreNext]_vars

(***************************************************************************)
(* Properties of preprocessing (checked under SpecPre)                     *)
(***************************************************************************)

Counters == {"views", "likes", "dislikes", "comment_count"}

\* The raw cell a counter of output row j was computed from.
RawCell(j, c) == raw.rows[out.index[j]][c]

NonNegativeInputs(j) ==
    \A c \in raw.cols \cap {"views", "likes", "comment_count", "comments"} :
        to_numeric(RawCell(j, c)).isnum /\ to_numeric(RawCell(j, c)).n >= 0

\* C7: in every row that preprocessing (either variant) or the synthetic
\* generator produces from counters greater than or equal to zero, the
\* denominator of engagement_rate is not zero and the rate is not negative.
C7_EngagementRateWellDefined ==
    ppc = "done" =>
        \A j \in 1..Len(out.rows) :
            ("engagement_rate" \in out.cols
             /\ (variant # "sample" => NonNegativeInputs(j))) =>
                /\ out.rows[j]["engagement_rate"].den > 0
                /\ out.rows[j]["engagement_rate"].num >= 0

(***************************************************************************)
(* main(): widgets, filter stage and reporting view (SpecMain).  A table   *)
(* is its column set and its rows; a row carries its index label, its      *)
(* category_name and its views (read only when the column exists).         *)
(***************************************************************************)

MaxTableRows == 3

\* category_name of a row whose cell is missing (NaN).
NoCategory == "nan"

Categories == {"Music", "Gaming"}
ViewValues == {0, 10, 100, 1000}
SliderValues == {0, 5, 10, 100, 1000}

AnalysisTypes == {"category", "time", "popular", "insights"}

\* The columns of a Kaggle file after app.py's preprocess_data.
FullCols == KaggleCols \cup DerivedByPreprocess(KaggleCols)

\* A table exported by the dashboard and read back without category_id:
\* category_name is then the file's own column (lines 66-68 do not run).
ExportedCols == FullCols \ {"category_id"}

\* The columns a CSV file may hold in the column-presence part of the
\* model: those the views and the derivations read.
BaseViewCols ==
    {"title", "views", "likes", "dislikes", "comment_count", "category_id",
     "tags", "publish_time"}
PrecomputedCols == {"category_name", "engagement_rate", "tags_count"}

\* The rows with their index labels 1, 2, ..., holding a cell for each of
\* category_name and views that is a column of the table.
Indexed(rows, cols) ==
    [i \in 1..Len(rows) |->
        [f \in {"index"} \cup (cols \cap {"category_name", "views"}) |->
            IF f = "index" THEN i ELSE rows[i][f]]]

TablesOver(cols, cats, views, n) ==
    {[cols |-> cols, rows |-> Indexed(rows, cols)] :
        rows \in UNION {[1..k -> [category_name : cats, views : views]] : k \in 1..n}}

\* The tables load_data can hand to main().
MainTables ==
    TablesOver(FullCols, Categories, ViewValues, MaxTableRows)
    \cup TablesOver(ExportedCols, {"Music", NoCategory}, {0, 10}, MaxTableRows)
    \cup {[cols |-> file \cup DerivedByPreprocess(file),
           rows |-> Indexed(<<[category_name |-> "Music", views |-> 10]>>,
                            file \cup DerivedByPreprocess(file))] :
            file \in SUBSET (BaseViewCols \cup PrecomputedCols)}

RECURSIVE SelectRows(_, _, _)
\* rows[i..] restricted to the rows whose index label is in keep.
SelectRows(rows, keep, i) ==
    IF i > Len(rows) THEN <<>>
    ELSE (IF rows[i].index \in keep THEN <<rows[i]>> ELSE <<>>)
         \o SelectRows(rows, keep, i + 1)

\* The boolean mask of line 194: filtered_df['category_name'].isin(selected).
IsinMask(rows, selected) ==
    {rows[i].index : i \in {k \in 1..Len(rows) : rows[k].category_name \in selected}}

\* The mask of lines 198-199 with the upper bound excluded.
ViewsMask_UpperExcluded(rows, range) ==
    {rows[i].index : i \in {k \in 1..Len(rows) :
        rows[k].views >= range[1] /\ rows[k].views < range[2]}}

\* The boolean mask of lines 198-199.
ViewsMask(rows, range) ==
    {rows[i].index : i \in {k \in 1..Len(rows) :
        rows[k].views >= range[1] /\ rows[k].views <= range[2]}}

\* lines 191-200.
FilterStage(t, selected, range) ==
    LET byCategory ==
            IF selected # {} /\ "category_name" \in t.cols
            THEN SelectRows(t.rows, IsinMask(t.rows, selected), 1)
            ELSE t.rows
        byViews ==
            IF "views" \in t.cols
            THEN SelectRows(byCategory, ViewsMask(byCategory, range), 1)
            ELSE byCategory
    IN [cols |-> t.cols, rows |-> byViews]

(***************************************************************************)
(* The reporting views.  A view is a list of charts and metrics; each has  *)
(* the columns its if-statement tests, the columns its body indexes, and   *)
(* the notice its else-branch shows ("" when there is none).  Indexing a   *)
(* column the table lacks raises KeyError, which ends the view.            *)
(***************************************************************************)

NothingShown == [failed |-> FALSE, rendered |-> {}, notices |-> {}, skipped |-> {}]

Item(cols, name, tested, indexed, notice) ==
    IF tested \subseteq cols
    THEN IF indexed \subseteq cols
         THEN [NothingShown EXCEPT !.rendered = {name}]
         ELSE [NothingShown EXCEPT !.failed = TRUE]
    ELSE IF notice = "" THEN [NothingShown EXCEPT !.skipped = {name}]
         ELSE [NothingShown EXCEPT !.skipped = {name}, !.notices = {notice}]

RECURSIVE RunItems(_, _)
RunItems(items, i) ==
    IF i > Len(items) THEN NothingShown
    ELSE IF items[i].failed THEN items[i]
    ELSE LET rest == RunItems(items, i + 1)
         IN [failed |-> rest.failed,
             rendered |-> items[i].rendered \cup rest.rendered,
             notices |-> items[i].notices \cup rest.notices,
             skipped |-> items[i].skipped \cup rest.skipped]

\* lines 212-252
show_category_analysis(cols) ==
    IF ~({"category_name", "views"} \subseteq cols)
    THEN [NothingShown EXCEPT
             !.skipped = {"category_views", "category_engagement",
                          "top_categories", "data_range"},
             !.notices = {"missing_columns"}]
    ELSE RunItems(
        <<Item(cols, "category_views", {}, {"category_name", "views"}, ""),
          Item(cols, "category_engagement", {"engagement_rate"},
               {"category_name", "engagement_rate"}, "no_engagement_rate"),
          Item(cols, "top_categories", {"engagement_rate"},
               {"category_name", "engagement_rate", "views"}, ""),
          Item(cols, "data_range", {}, {"category_name"}, "")>>, 1)

\* lines 254-312
show_time_analysis(cols) ==
    RunItems(
        <<Item(cols, "hourly_views", {"publish_hour", "views"},
               {"publish_hour", "views"}, "missing_time_data"),
          Item(cols, "daily_views", {"publish_day", "views"},
               {"publish_day", "views"}, "missing_day_data"),
          Item(cols, "title_length_hist", {"title_length"}, {"title_length"}, ""),
          Item(cols, "tags_count_dist", {"tags_count"}, {"tags_count"}, ""),
          Item(cols, "best_time", {"publish_hour", "publish_day", "views"},
               {"publish_hour", "publish_day", "views"}, ""),
          Item(cols, "title_advice", {"title_length"}, {"title_length"}, ""),
          Item(cols, "tags_advice", {"tags_count"}, {"tags_count"}, "")>>, 1)

\* lines 314-371
show_popular_videos_analysis(cols) ==
    RunItems(
        <<Item(cols, "top10",
               {"title", "views", "likes", "category_name", "engagement_rate"},
               {"title", "views", "likes", "category_name", "engagement_rate"}, ""),
          Item(cols, "like_ratio_hist", {"like_ratio"}, {"like_ratio"}, ""),
          Item(cols, "engagement_hist", {"engagement_rate"}, {"engagement_rate"}, ""),
          Item(cols, "tag_engagement", {"tags_count", "engagement_rate"},
               {"tags_count", "engagement_rate"}, ""),
          Item(cols, "tag_views", {"tags_count", "engagement_rate"},
               {"tags_count", "views"}, "")>>, 1)

\* lines 414-419: the summary is shown when any of the columns exists.
DescribeItem(cols) ==
    IF {"views", "likes", "dislikes", "comment_count", "engagement_rate"} \cap cols # {}
    THEN [NothingShown EXCEPT !.rendered = {"describe"}]
    ELSE [NothingShown EXCEPT !.skipped = {"describe"}]

\* lines 373-448
show_comprehensive_insights(cols) ==
    RunItems(
        <<Item(cols, "avg_views", {"views"}, {"views"}, ""),
          Item(cols, "avg_engagement", {"engagement_rate"}, {"engagement_rate"}, ""),
          Item(cols, "avg_like_ratio", {"like_ratio"}, {"like_ratio"}, ""),
          Item(cols, "category_count", {"category_name"}, {"category_name"}, ""),
          Item(cols, "category_share", {"category_name"}, {"category_name"}, ""),
          DescribeItem(cols),
          Item(cols, "corr_likes", {"views", "likes", "comment_count"},
               {"views", "likes"}, ""),
          Item(cols, "corr_comments", {"views", "likes", "comment_count"},
               {"views", "comment_count"}, ""),
          Item(cols, "export", {}, {}, "")>>, 1)

\* value_counts that counts every category once, as unique() would.
value_counts_once(rows) ==
    LET labels == {rows[i].category_name : i \in 1..Len(rows)} \ {NoCategory}
    IN [l \in labels |-> 1]

\* line 406: df['category_name'].value_counts(), which leaves missing
\* values out; lines 407-408: each count with its percentage of len(df).
value_counts(rows) ==
    LET labels == {rows[i].category_name : i \in 1..Len(rows)} \ {NoCategory}
    IN [l \in labels |->
           Cardinality({i \in 1..Len(rows) : rows[i].category_name = l})]

CategoryShare(t) ==
    IF "category_name" \in t.cols
    THEN LET counts == value_counts(t.rows)
         IN [l \in DOMAIN counts |->
                [count |-> counts[l],
                 percentage |-> Ratio(counts[l] * 100, Len(t.rows))]]
    ELSE <<>>

ShowView(type, t) ==
    CASE type = "category" -> show_category_analysis(t.cols)
      [] type = "time" -> show_time_analysis(t.cols)
      [] type = "popular" -> show_popular_videos_analysis(t.cols)
      [] type = "insights" -> show_comprehensive_insights(t.cols)

MinViews(t) == CHOOSE m \in {t.rows[i].views : i \in 1..Len(t.rows)} :
                  \A i \in 1..Len(t.rows) : m <= t.rows[i].views
MaxViews(t) == CHOOSE m \in {t.rows[i].views : i \in 1..Len(t.rows)} :
                  \A i \in 1..Len(t.rows) : m >= t.rows[i].views

\* lines 160-189: the radio, the multiselect over the categories of the
\* table, the range slider between the least and the greatest view count.
Widgets ==
    /\ mpc = "widgets"
    /\ analysis_type' \in AnalysisTypes
    /\ IF "category_name" \in mdf.cols
       THEN selected_categories' \in
                SUBSET {mdf.rows[i].category_name : i \in 1..Len(mdf.rows)}
       ELSE selected_categories' = {}
    /\ IF "views" \in mdf.cols
       THEN \E lo, hi \in SliderValues :
               /\ MinViews(mdf) <= lo /\ lo <= hi /\ hi <= MaxViews(mdf)
               /\ view_range' = <<lo, hi>>
       ELSE view_range' = <<0, 1000000>>
    /\ mpc' = "filter"
    /\ UNCHANGED <<loadVars, preVars, mdf, filtered_df, view>>

\* lines 191-200
Filter ==
    /\ mpc = "filter"
    /\ filtered_df' = FilterStage(mdf, selected_categories, view_range)
    /\ mpc' = "view"
    /\ UNCHANGED <<loadVars, preVars, mdf, analysis_type, selected_categories,
                   view_range, view>>

\* lines 202-210
Show ==
    /\ mpc = "view"
    /\ view' = [shown |-> ShowView(analysis_type, filtered_df),
                share |-> IF analysis_type = "insights"
                          THEN CategoryShare(filtered_df) ELSE <<>>]
    /\ mpc' = "done"
    /\ UNCHANGED <<loadVars, preVars, mdf, analysis_type, selected_categories,
                   view_range, filtered_df>>

\* A user interaction: Streamlit runs main() again from the top; the table
\* comes from the cache of load_data.
Rerun ==
    /\ mpc = "done"
    /\ mpc' = "widgets"
    /\ analysis_type' = "none" /\ selected_categories' = {}
    /\ view_range' = <<0, 0>> /\ filtered_df' = <<>> /\ view' = <<>>
    /\ UNCHANGED <<loadVars, preVars, mdf>>

MainInit ==
    /\ mpc = "widgets"
    /\ mdf \in MainTables
    /\ analysis_type = "none" /\ selected_categories = {}
    /\ view_range = <<0, 0>> /\ filtered_df = <<>> /\ view = <<>>
    /\ LoadIdle /\ PreIdle

MainNext == Widgets \/ Filter \/ Show \/ Rerun

SpecMain == MainInit /\ [][MainNext]_vars

(***************************************************************************)
(* Properties of main() (checked under SpecMain)                           *)
(***************************************************************************)

\* The index labels of the rows of mdf that the filter stage is to keep.
Wanted ==
    {i \in 1..Len(mdf.rows) :
        /\ selected_categories = {} \/ mdf.rows[i].category_name \in selected_categories
        /\ view_range[1] <= mdf.rows[i].views
        /\ mdf.rows[i].views <= view_range[2]}

\* C4: for a table with a category and a view-count column, the filter
\* stage returns exactly the rows whose category is selected (all when
\* nothing is selected) and whose views lie in [lo, hi], both ends
\* included: those rows, unchanged, once each, in the table's order, with
\* the table's columns; so the result is fixed by the table, the selection
\* and the range.
C4_FilterExact ==
    (mpc \in {"view", "done"} /\ {"category_name", "views"} \subseteq mdf.cols) =>
        LET got == filtered_df.rows IN
        /\ filtered_df.cols = mdf.cols
        /\ Len(got) = Cardinality(Wanted)
        /\ \A j \in 1..Len(got) :
             got[j].index \in Wanted /\ got[j] = mdf.rows[got[j].index]
        /\ \A j, k \in 1..Len(got) : j < k => got[j].index < got[k].index

\* C4 witness: the filter has run with a selection and a range lo < hi,
\* kept a row with views = lo and a row with views = hi, and dropped a row.
C4_Witness ==
    /\ mpc = "view" /\ {"category_name", "views"} \subseteq mdf.cols
    /\ selected_categories # {} /\ view_range[1] < view_range[2]
    /\ \E j, k \in 1..Len(filtered_df.rows) :
         /\ filtered_df.rows[j].views = view_range[1]
         /\ filtered_df.rows[k].views = view_range[2]
    /\ Len(filtered_df.rows) < Len(mdf.rows)

\* C8: whatever columns the filtered table lacks, the selected reporting
\* view completes: no missing column makes it fail with an error.
C8_ViewCompletes ==
    mpc = "done" => ~view.shown.failed

RECURSIVE SumCounts(_, _)
SumCounts(share, labels) ==
    IF labels = {} THEN 0
    ELSE LET l == CHOOSE x \in labels : TRUE
         IN share[l].count + SumCounts(share, labels \ {l})

RECURSIVE SumNumerators(_, _)
SumNumerators(share, labels) ==
    IF labels = {} THEN 0
    ELSE LET l == CHOOSE x \in labels : TRUE
         IN share[l].percentage.num + SumNumerators(share, labels \ {l})

\* The reported percentages, which all have the denominator n, sum to 100.
PercentagesSumTo100(share, n) ==
    /\ \A l \in DOMAIN share : share[l].percentage.den = n
    /\ n # 0
    /\ SumNumerators(share, DOMAIN share) = 100 * n

InsightsShown ==
    /\ mpc = "done" /\ analysis_type = "insights"
    /\ "category_name" \in filtered_df.cols

\* C10 as claimed: in the comprehensive-insights report of a table whose
\* category_name preprocessing derived from category_id, the per-category
\* counts add up to the number of rows and the percentages sum to 100, for
\* every filtered table.
C10_SharesSumTo100 ==
    (InsightsShown /\ "category_id" \in filtered_df.cols) =>
        /\ SumCounts(view.share, DOMAIN view.share) = Len(filtered_df.rows)
        /\ PercentagesSumTo100(view.share, Len(filtered_df.rows))

Labelled(rows) == {i \in 1..Len(rows) : rows[i].category_name # NoCategory}

\* C10 as amended: the per-category counts add up to the number of rows
\* whose category_name is not missing, which is every row when
\* preprocessing derived category_name from category_id; the percentages
\* sum to 100 exactly when the filtered table is not empty and no
\* category_name is missing (an empty table reports no category).
C10_SharesSumAmended ==
    InsightsShown =>
        LET rows == filtered_df.rows IN
        /\ DOMAIN view.share = {rows[i].category_name : i \in Labelled(rows)}
        /\ SumCounts(view.share, DOMAIN view.share) = Cardinality(Labelled(rows))
        /\ "category_id" \in filtered_df.cols => Cardinality(Labelled(rows)) = Len(rows)
        /\ PercentagesSumTo100(view.share, Len(rows))
             <=> (Len(rows) > 0 /\ Cardinality(Labelled(rows)) = Len(rows))

\* C10 witness: the report of a filtered table of three rows in two
\* categories, whose percentages sum to 100.
C10_Witness ==
    /\ InsightsShown /\ "category_id" \in filtered_df.cols
    /\ Len(filtered_df.rows) = 3
    /\ Cardinality(DOMAIN view.share) = 2
    /\ PercentagesSumTo100(view.share, 3)

====
